---- MODULE Spec2Model ----
(***************************************************************************)
(* BrontoBoard (src/dayplanner-tests.ts, lines 192-427): an in-memory      *)
(* board of classes and their assignments, a board-wide syllabus text, and *)
(* an LLM-backed extraction that validates the model's answer and commits  *)
(* the assignments it names.                                               *)
(*                                                                         *)
(* Strings are sequences of one-character strings.  An instant is an       *)
(* integer count of clock ticks since 1 January 1970, TicksPerDay ticks to *)
(* the day, so that tick 0 of a day is its local midnight.  Each public    *)
(* method is one action; findAssignments is two, split at its only await.  *)
(* `last` is the call that has just run and has yet to return to its       *)
(* caller: its arguments, its outcome, and the store as it was when the    *)
(* call began.  The board is single-threaded: the next call starts after   *)
(* the caller has been handed the outcome of this one.                     *)
(***************************************************************************)
EXTENDS Integers, Sequences, FiniteSets, TLC

VARIABLES classes, syllabus, now, nextId, pending, last

vars == <<classes, syllabus, now, nextId, pending, last>>

(***************************************************************************)
(* Bounds of the model.                                                    *)
(***************************************************************************)
TicksPerDay == 2
MaxElapsed == 1
MaxIds == 4
MaxCandidates == 2
MaxInFlight == 1

(***************************************************************************)
(* Strings: String.prototype.trim                                          *)
(***************************************************************************)
IsSpace(c) == c = " "

RECURSIVE TrimStart(_)
TrimStart(s) ==
    IF s # <<>> /\ IsSpace(Head(s)) THEN TrimStart(Tail(s)) ELSE s

RECURSIVE TrimEnd(_)
TrimEnd(s) ==
    IF s # <<>> /\ IsSpace(s[Len(s)]) THEN TrimEnd(SubSeq(s, 1, Len(s) - 1)) ELSE s

Trim(s) == TrimEnd(TrimStart(s))

(***************************************************************************)
(* Dates: the Date constructor and the clock, as ECMAScript defines them   *)
(* (local time, no daylight saving shift).                                 *)
(***************************************************************************)
MaxDayNumber == 100000000

IsLeapYear(y) == (y % 4 = 0 /\ y % 100 # 0) \/ y % 400 = 0

DayFromYear(y) ==
    365 * (y - 1970) + ((y - 1969) \div 4) - ((y - 1901) \div 100)
        + ((y - 1601) \div 400)

DaysInMonth(y, m) ==
    CASE m = 1 -> IF IsLeapYear(y) THEN 29 ELSE 28
      [] m \in {3, 5, 8, 10} -> 30
      [] OTHER -> 31

RECURSIVE DaysBeforeMonth(_, _)
DaysBeforeMonth(y, m) ==
    IF m = 0 THEN 0 ELSE DaysBeforeMonth(y, m - 1) + DaysInMonth(y, m - 1)

\* MakeDay(year, month, date): month is 0-based and may lie outside 0..11,
\* date may lie outside the month; both carry over.
MakeDay(year, month, date) ==
    LET ym == year + (month \div 12)
        mn == month % 12
    IN  DayFromYear(ym) + DaysBeforeMonth(ym, mn) + date - 1

\* new Date(year, month, date, 0, 0, 0, 0): an instant, or NaN (Invalid Date)
\* when the day lies outside the range a Date can hold.
NewDate(year, month, date) ==
    LET d == MakeDay(year, month, date)
    IN  IF d > MaxDayNumber \/ d < -MaxDayNumber
        THEN [nan |-> TRUE, t |-> 0]
        ELSE [nan |-> FALSE, t |-> d * TicksPerDay]

DayOf(t) == t \div TicksPerDay

RECURSIVE YearFromDay(_, _)
YearFromDay(d, y) ==
    IF DayFromYear(y) > d THEN YearFromDay(d, y - 1)
    ELSE IF DayFromYear(y + 1) <= d THEN YearFromDay(d, y + 1)
    ELSE y

\* Date.prototype.getFullYear
GetFullYear(t) == YearFromDay(DayOf(t), 1970 + (DayOf(t) \div 365))

(***************************************************************************)
(* The store: `classes` is the Record<string, Class> of the board, kept as *)
(* the sequence of its values in insertion order.                          *)
(***************************************************************************)
\* an id that crypto.randomUUID never returned
UnknownId == MaxIds + 1

ClassIds(cs) == {cs[i].id : i \in DOMAIN cs}

\* this.classes[classid], for a classid the board holds
ClassIndex(cs, classid) == CHOOSE i \in DOMAIN cs : cs[i].id = classid

\* ensureClassExists: TRUE when it returns, FALSE when it throws
ensureClassExists(cs, classid) == \E i \in DOMAIN cs : cs[i].id = classid

AllAssignmentIds(cs) ==
    UNION {{cs[i].assignments[j].id : j \in DOMAIN cs[i].assignments} : i \in DOMAIN cs}

NoAssignments == <<>>

NewClass(id, name, overview) ==
    [id |-> id, name |-> name, overview |-> overview, assignments |-> NoAssignments]

\* createClass: the board after the call
createClass(cs, id, name, overview) == Append(cs, NewClass(id, name, overview))

\* the text stored as given
addSyllabusUntrimmed(old, text) ==
    IF Trim(text) = <<>>
    THEN [result |-> "empty_syllabus", syllabus |-> old]
    ELSE [result |-> "ok", syllabus |-> text]

\* addSyllabus: the outcome and the stored text after the call
addSyllabus(old, text) ==
    IF Trim(text) = <<>>
    THEN [result |-> "empty_syllabus", syllabus |-> old]
    ELSE [result |-> "ok", syllabus |-> Trim(text)]

\* a comparison that turns the current instant away too
IsPastOrNow(dueDate, t) == dueDate <= t

\* the comparison `dueDate < new Date()` of addAssignment and changeAssignment
IsPast(dueDate, t) == dueDate < t

PushAssignment(cs, classid, work) ==
    [cs EXCEPT ![ClassIndex(cs, classid)].assignments = Append(@, work)]

\* addAssignment: the outcome and the board after the call
addAssignment(cs, classid, workName, dueDate, t, id) ==
    IF ~ensureClassExists(cs, classid)
    THEN [result |-> "class_not_found", classes |-> cs]
    ELSE IF Trim(workName) = <<>>
    THEN [result |-> "empty_name", classes |-> cs]
    ELSE IF IsPast(dueDate, t)
    THEN [result |-> "past_due", classes |-> cs]
    ELSE [result |-> "ok",
          classes |-> PushAssignment(cs, classid,
                          [id |-> id, name |-> workName, dueDate |-> dueDate])]

\* findIndex(a => a.id === id): the first index, 0 for none
RECURSIVE FindIndexFrom(_, _, _)
FindIndexFrom(as, id, j) ==
    IF j > Len(as) THEN 0
    ELSE IF as[j].id = id THEN j
    ELSE FindIndexFrom(as, id, j + 1)

findIndex(as, id) == FindIndexFrom(as, id, 1)

\* splice(index): everything from the index on is removed
SpliceToEnd(as, index) == SubSeq(as, 1, index - 1)

\* splice(index, 1)
Splice(as, index) ==
    SubSeq(as, 1, index - 1) \o SubSeq(as, index + 1, Len(as))

\* removeWork: classes are scanned in order from the i-th on
RECURSIVE RemoveFrom(_, _, _)
RemoveFrom(cs, id, i) ==
    IF i > Len(cs)
    THEN [result |-> "assignment_not_found", classes |-> cs]
    ELSE LET index == findIndex(cs[i].assignments, id)
         IN  IF index # 0
             THEN [result |-> "ok",
                   classes |-> [cs EXCEPT ![i].assignments = Splice(@, index)]]
             ELSE RemoveFrom(cs, id, i + 1)

removeWork(cs, id) == RemoveFrom(cs, id, 1)

\* changeAssignment on the assignment object with this id: the object is
\* changed in place, so the board changes when the board still holds it
changeAssignment(cs, isNull, id, newDueDate, t) ==
    IF isNull
    THEN [result |-> "invalid_assignment", classes |-> cs]
    ELSE IF IsPast(newDueDate, t)
    THEN [result |-> "past_due", classes |-> cs]
    ELSE [result |-> "ok",
          classes |-> [i \in DOMAIN cs |->
              [cs[i] EXCEPT !.assignments =
                  [j \in DOMAIN @ |->
                      IF @[j].id = id THEN [@[j] EXCEPT !.dueDate = newDueDate]
                      ELSE @[j]]]]]

\* getAllAssignments: the outcome and the collection it returns
getAllAssignments(cs, classid) ==
    IF ensureClassExists(cs, classid)
    THEN [result |-> "ok", ret |-> cs[ClassIndex(cs, classid)].assignments]
    ELSE [result |-> "type_error", ret |-> NoAssignments]

(***************************************************************************)
(* The LLM's answer.  A response is the outcome of executeLLM and of the   *)
(* parse of its text: the call threw, the text holds no {...}, the {...}   *)
(* is not JSON, its `assignments` is missing (or falsy), is not an array,  *)
(* or is a list of items.  An item is an object or not; its fields are     *)
(* JSON values.                                                            *)
(***************************************************************************)
JInt(n) == [t |-> "int", v |-> n]
JNumStr(n) == [t |-> "numstr", v |-> n]
JFrac(n) == [t |-> "frac", v |-> n]
JText == [t |-> "text", v |-> 0]
JNull == [t |-> "null", v |-> 0]
JUndefined == [t |-> "undefined", v |-> 0]
JStr(s) == [t |-> "str", s |-> s]
JNotStr == [t |-> "other", s |-> <<>>]

\* Number(v): an integer v, a number between v and v + 1, or NaN
Number(j) ==
    CASE j.t = "int" -> [nan |-> FALSE, int |-> TRUE, v |-> j.v]
      [] j.t = "numstr" -> [nan |-> FALSE, int |-> TRUE, v |-> j.v]
      [] j.t = "null" -> [nan |-> FALSE, int |-> TRUE, v |-> 0]
      [] j.t = "frac" -> [nan |-> FALSE, int |-> FALSE, v |-> j.v]
      [] OTHER -> [nan |-> TRUE, int |-> FALSE, v |-> 0]

NumberIsInteger(n) == ~n.nan /\ n.int

\* the comparison `specificDate < now` of the validator
IsPastDue(specificDate, t) == specificDate < t

\* the month taken as 0-based
SpecificDateZeroBased(t, month, day) == NewDate(GetFullYear(t), month, day)

\* new Date(now.getFullYear(), month - 1, day, 0, 0, 0, 0)
SpecificDate(t, month, day) == NewDate(GetFullYear(t), month - 1, day)

NoIssue == "none"

\* one turn of the validation loop: the issue it pushes (NoIssue for none)
\* and the assignment it validates
ValidateOne(raw, t) ==
    IF ~raw.obj
    THEN [issue |-> "not_object", name |-> <<>>, dueDate |-> 0]
    ELSE IF raw.name.t # "str" \/ Trim(raw.name.s) = <<>>
    THEN [issue |-> "missing_name", name |-> <<>>, dueDate |-> 0]
    ELSE LET month == Number(raw.monthDue)
             day == Number(raw.dayDue)
         IN  IF ~NumberIsInteger(month) \/ ~NumberIsInteger(day)
             THEN [issue |-> "invalid_numeric", name |-> raw.name.s, dueDate |-> 0]
             ELSE LET specificDate == SpecificDate(t, month.v, day.v)
                  IN  IF specificDate.nan
                      THEN [issue |-> "invalid_date", name |-> raw.name.s,
                            dueDate |-> 0]
                      ELSE IF IsPastDue(specificDate.t, t)
                      THEN [issue |-> "past_due", name |-> raw.name.s,
                            dueDate |-> specificDate.t]
                      ELSE [issue |-> NoIssue, name |-> raw.name.s,
                            dueDate |-> specificDate.t]

\* a validation loop that stops at the first issue
RECURSIVE ValidateFromShortCircuit(_, _, _, _, _)
ValidateFromShortCircuit(items, t, k, issues, validated) ==
    IF k > Len(items)
    THEN [issues |-> issues, validated |-> validated]
    ELSE LET v == ValidateOne(items[k], t)
         IN  IF v.issue # NoIssue
             THEN [issues |-> Append(issues, v.issue), validated |-> validated]
             ELSE ValidateFromShortCircuit(items, t, k + 1, issues,
                      Append(validated, [name |-> v.name, dueDate |-> v.dueDate]))

\* the validation loop over response.assignments
RECURSIVE ValidateFrom(_, _, _, _, _)
ValidateFrom(items, t, k, issues, validated) ==
    IF k > Len(items)
    THEN [issues |-> issues, validated |-> validated]
    ELSE LET v == ValidateOne(items[k], t)
         IN  IF v.issue # NoIssue
             THEN ValidateFrom(items, t, k + 1, Append(issues, v.issue), validated)
             ELSE ValidateFrom(items, t, k + 1, issues,
                      Append(validated, [name |-> v.name, dueDate |-> v.dueDate]))

Validate(items, t) == ValidateFrom(items, t, 1, <<>>, <<>>)

\* a duplicate check that looks at the newest assignment only
HasNameNewestOnly(as, name) == as # <<>> /\ as[Len(as)].name = name

\* assignments.some(a => a.name === name)
HasName(as, name) == \E j \in DOMAIN as : as[j].name = name

\* a gate that lets a single issue through
GateRejectsLenient(issues) == Len(issues) > 1

\* the gate between the validation loop and the commit loop
GateRejects(issues) == Len(issues) > 0

\* the commit loop from the k-th validated assignment on; id is the next
\* fresh id
RECURSIVE CommitFrom(_, _, _, _, _, _)
CommitFrom(cs, validated, classid, t, id, k) ==
    IF k > Len(validated)
    THEN [result |-> "ok", classes |-> cs, nextId |-> id]
    ELSE IF ~ensureClassExists(cs, classid)
    THEN [result |-> "type_error", classes |-> cs, nextId |-> id]
    ELSE IF HasName(cs[ClassIndex(cs, classid)].assignments, validated[k].name)
    THEN [result |-> "duplicate", classes |-> cs, nextId |-> id]
    ELSE LET r == addAssignment(cs, classid, validated[k].name,
                                validated[k].dueDate, t, id)
         IN  IF r.result # "ok"
             THEN [result |-> r.result, classes |-> r.classes, nextId |-> id]
             ELSE CommitFrom(r.classes, validated, classid, t, id + 1, k + 1)

\* parseAndApplyAssignments: the outcome, the issues of the error it throws,
\* the board after the call and the next fresh id
parseAndApplyAssignments(cs, resp, classid, t, id) ==
    CASE resp.kind = "no_json" ->
            [result |-> "no_json", issues |-> <<>>, classes |-> cs, nextId |-> id]
      [] resp.kind = "bad_json" ->
            [result |-> "json_parse", issues |-> <<>>, classes |-> cs, nextId |-> id]
      [] resp.kind \in {"no_field", "not_array"} ->
            [result |-> "invalid_format", issues |-> <<>>, classes |-> cs,
             nextId |-> id]
      [] OTHER ->
            LET v == Validate(resp.items, t)
            IN  IF GateRejects(v.issues)
                THEN [result |-> "disallowed", issues |-> v.issues, classes |-> cs,
                      nextId |-> id]
                ELSE LET c == CommitFrom(cs, v.validated, classid, t, id, 1)
                     IN  [result |-> c.result, issues |-> <<>>,
                          classes |-> c.classes, nextId |-> c.nextId]

\* createAssignmentPrompt: the requirements, and the syllabus between its
\* markers
createAssignmentPrompt(text) ==
    [requirements |-> <<"only_in_text", "json_only", "month_number",
                        "minus_one_unknown", "on_or_after_today">>,
     syllabus |-> text]

\* a catch block that does not rethrow the LLM's error
findAssignmentsSwallowing(cs, resp, classid, t, id) ==
    IF resp.kind = "llm_error"
    THEN [result |-> "ok", issues |-> <<>>, classes |-> cs, nextId |-> id]
    ELSE parseAndApplyAssignments(cs, resp, classid, t, id)

\* the part of findAssignments after the await
findAssignments(cs, resp, classid, t, id) ==
    IF resp.kind = "llm_error"
    THEN [result |-> "llm_error", issues |-> <<>>, classes |-> cs, nextId |-> id]
    ELSE parseAndApplyAssignments(cs, resp, classid, t, id)

(***************************************************************************)
(* The calls the model makes.  The clock starts at midnight of 30 April    *)
(* 2025.                                                                   *)
(***************************************************************************)
StartInstant == NewDate(2025, 3, 30).t

ClassNameInputs == {<<>>, <<" ">>, <<"P">>}
OverviewInputs == {<<"H">>}
NameInputs == {<<>>, <<" ">>, <<"A">>, <<"B">>}
SyllabusInputs == {<<>>, <<" ">>, <<" ", "s", " ">>}
DateInputs == {StartInstant - 1, StartInstant, StartInstant + TicksPerDay}

Item(name, monthDue, dayDue) ==
    [obj |-> TRUE, name |-> name, monthDue |-> monthDue, dayDue |-> dayDue]

NotAnObject ==
    [obj |-> FALSE, name |-> JNotStr, monthDue |-> JUndefined, dayDue |-> JUndefined]

ItemInputs ==
    { NotAnObject,
      Item(JNotStr, JInt(5), JInt(2)),
      Item(JStr(<<" ">>), JInt(5), JInt(2)),
      Item(JStr(<<"A">>), JInt(5), JText),
      Item(JStr(<<"A">>), JFrac(5), JInt(2)),
      Item(JStr(<<"A">>), JInt(3600000), JInt(1)),
      Item(JStr(<<"A">>), JInt(4), JInt(31)),
      Item(JStr(<<"B">>), JInt(4), JInt(29)),
      Item(JStr(<<"B">>), JInt(4), JInt(30)),
      Item(JStr(<<"B">>), JNull, JInt(30)),
      Item(JStr(<<"A">>), JInt(5), JInt(2)),
      Item(JStr(<<"B">>), JNumStr(5), JInt(2)) }

ItemLists == UNION {[1..n -> ItemInputs] : n \in 0..MaxCandidates}

NoItems == <<>>

ResponseInputs ==
    {[kind |-> k, items |-> NoItems] :
        k \in {"llm_error", "no_json", "bad_json", "no_field", "not_array"}}
    \cup {[kind |-> "list", items |-> items] : items \in ItemLists}

NoResponse == [kind |-> "none", items |-> NoItems]

Call(op, cid, name, date, work, resp, r) ==
    [op |-> op, cid |-> cid, name |-> name, date |-> date, work |-> work,
     resp |-> resp, result |-> r.result, issues |-> r.issues, ret |-> r.ret,
     preClasses |-> classes, preSyllabus |-> syllabus, preNextId |-> nextId]

Outcome(result) == [result |-> result, issues |-> <<>>, ret |-> NoAssignments]

\* no call is running
Idle ==
    [op |-> "idle", cid |-> UnknownId, name |-> <<>>, date |-> 0,
     work |-> UnknownId, resp |-> NoResponse, result |-> "ok",
     issues |-> <<>>, ret |-> NoAssignments, preClasses |-> <<>>,
     preSyllabus |-> <<>>, preNextId |-> 0]

Init ==
    /\ classes = <<>>
    /\ syllabus = <<>>
    /\ now = StartInstant
    /\ nextId = 1
    /\ pending = <<>>
    /\ last = Idle

CreateClassOf(names) ==
    \E name \in names, overview \in OverviewInputs :
        /\ last = Idle
        /\ nextId <= MaxIds
        /\ classes' = createClass(classes, nextId, name, overview)
        /\ nextId' = nextId + 1
        /\ last' = Call("createClass", nextId, name, 0, UnknownId, NoResponse,
                        Outcome("ok"))
        /\ UNCHANGED <<syllabus, now, pending>>

CreateClass == CreateClassOf(ClassNameInputs)

\* createClass, as the extraction's callers use it
CreateNamedClass == CreateClassOf({<<"P">>})

AddSyllabusOf(texts) ==
    \E text \in texts :
        LET r == addSyllabus(syllabus, text)
        IN  /\ last = Idle
            /\ syllabus' = r.syllabus
            /\ last' = Call("addSyllabus", UnknownId, text, 0, UnknownId,
                            NoResponse, Outcome(r.result))
            /\ UNCHANGED <<classes, now, nextId, pending>>

AddSyllabus == AddSyllabusOf(SyllabusInputs)

\* addSyllabus, called with one text after another
ReplaceSyllabus ==
    AddSyllabusOf(SyllabusInputs \cup {<<"t">>, <<" ", " ", "s", " ", "t">>})

AddAssignmentOf(names, dates) ==
    \E classid \in ClassIds(classes) \cup {UnknownId},
       workName \in names, dueDate \in dates :
        LET r == addAssignment(classes, classid, workName, dueDate, now, nextId)
        IN  /\ last = Idle
            /\ r.result = "ok" => nextId <= MaxIds
            /\ classes' = r.classes
            /\ nextId' = IF r.result = "ok" THEN nextId + 1 ELSE nextId
            /\ last' = Call("addAssignment", classid, workName, dueDate, nextId,
                            NoResponse, Outcome(r.result))
            /\ UNCHANGED <<syllabus, now, pending>>

AddAssignment == AddAssignmentOf(NameInputs, DateInputs)

\* addAssignment, called by hand before an extraction
AddByHand == AddAssignmentOf({<<"A">>}, {StartInstant + TicksPerDay})

\* the caller passes null, an assignment the board holds, or one it no
\* longer holds
ChangeAssignment ==
    \E isNull \in BOOLEAN, id \in AllAssignmentIds(classes) \cup {UnknownId},
       newDueDate \in DateInputs :
        LET r == changeAssignment(classes, isNull, id, newDueDate, now)
        IN  /\ last = Idle
            /\ isNull => id = UnknownId
            /\ classes' = r.classes
            /\ last' = Call(IF isNull THEN "changeAssignment(null)"
                            ELSE "changeAssignment",
                            UnknownId, <<>>, newDueDate, id, NoResponse,
                            Outcome(r.result))
            /\ UNCHANGED <<syllabus, now, nextId, pending>>

RemoveWork ==
    \E id \in 1..(nextId - 1) \cup {UnknownId} :
        LET r == removeWork(classes, id)
        IN  /\ last = Idle
            /\ classes' = r.classes
            /\ last' = Call("removeWork", UnknownId, <<>>, 0, id, NoResponse,
                            Outcome(r.result))
            /\ UNCHANGED <<syllabus, now, nextId, pending>>

GetAllAssignments ==
    \E classid \in ClassIds(classes) \cup {UnknownId} :
        LET r == getAllAssignments(classes, classid)
        IN  /\ last = Idle
            /\ last' = Call("getAllAssignments", classid, <<>>, 0, UnknownId,
                            NoResponse,
                            [result |-> r.result, issues |-> <<>>, ret |-> r.ret])
            /\ UNCHANGED <<classes, syllabus, now, nextId, pending>>

\* findAssignments up to its await: the prompt is built from the stored
\* syllabus and handed to the LLM
FindAssignmentsCall ==
    \E classid \in ClassIds(classes) \cup {UnknownId} :
        /\ last = Idle
        /\ Len(pending) < MaxInFlight
        /\ pending' = Append(pending,
               [classid |-> classid, prompt |-> createAssignmentPrompt(syllabus)])
        /\ last' = Call("findAssignments.call", classid, syllabus, 0, UnknownId,
                        NoResponse, Outcome("pending"))
        /\ UNCHANGED <<classes, syllabus, now, nextId>>

\* findAssignments from its await on: the LLM answers the i-th call in flight
FindAssignmentsResumeOf(responses) ==
    \E i \in DOMAIN pending, resp \in responses :
        LET r == findAssignments(classes, resp, pending[i].classid, now, nextId)
        IN  /\ last = Idle
            /\ r.nextId <= MaxIds + 1
            /\ classes' = r.classes
            /\ nextId' = r.nextId
            /\ pending' = SubSeq(pending, 1, i - 1) \o SubSeq(pending, i + 1, Len(pending))
            /\ last' = Call("findAssignments", pending[i].classid,
                            pending[i].prompt.syllabus, 0, UnknownId, resp,
                            [result |-> r.result, issues |-> r.issues,
                             ret |-> NoAssignments])
            /\ UNCHANGED <<syllabus, now>>

FindAssignmentsResume == FindAssignmentsResumeOf(ResponseInputs)

\* a few of the LLM's answers: a failure, no assignments, one valid item,
\* one item that is no object
ResponseSamples ==
    {[kind |-> "llm_error", items |-> NoItems],
     [kind |-> "list", items |-> NoItems],
     [kind |-> "list", items |-> <<Item(JStr(<<"B">>), JNumStr(5), JInt(2))>>],
     [kind |-> "list", items |-> <<NotAnObject>>]}

FindAssignmentsAnswer == FindAssignmentsResumeOf(ResponseSamples)

\* the call that has just run returns to its caller
Return ==
    /\ last # Idle
    /\ last' = Idle
    /\ UNCHANGED <<classes, syllabus, now, nextId, pending>>

\* the clock advances between calls
Tick ==
    /\ last = Idle
    /\ now < StartInstant + MaxElapsed
    /\ now' = now + 1
    /\ UNCHANGED <<classes, syllabus, nextId, pending, last>>

Next ==
    \/ CreateClass
    \/ AddSyllabus
    \/ AddAssignment
    \/ ChangeAssignment
    \/ RemoveWork
    \/ GetAllAssignments
    \/ FindAssignmentsCall
    \/ FindAssignmentsResume
    \/ Return
    \/ Tick

Spec == Init /\ [][Next]_vars

\* the board driven by its store operations alone
NextStore ==
    \/ CreateClass
    \/ AddAssignment
    \/ ChangeAssignment
    \/ RemoveWork
    \/ GetAllAssignments
    \/ Return
    \/ Tick

SpecStore == Init /\ [][NextStore]_vars

\* the board driven by the extraction: classes, assignments added by hand,
\* the syllabus, and findAssignments
NextExtract ==
    \/ CreateNamedClass
    \/ AddSyllabus
    \/ AddByHand
    \/ FindAssignmentsCall
    \/ FindAssignmentsResume
    \/ Return
    \/ Tick

SpecExtract == Init /\ [][NextExtract]_vars

\* the board driven by every method, the syllabus replaced again and again
NextSyllabus ==
    \/ CreateNamedClass
    \/ ReplaceSyllabus
    \/ AddByHand
    \/ ChangeAssignment
    \/ RemoveWork
    \/ GetAllAssignments
    \/ FindAssignmentsCall
    \/ FindAssignmentsAnswer
    \/ Return
    \/ Tick

SpecSyllabus == Init /\ [][NextSyllabus]_vars

(***************************************************************************)
(* What the claims speak of.                                               *)
(***************************************************************************)
\* a string of no characters but spaces
IsBlank(s) == \A i \in DOMAIN s : s[i] = " "

\* Date.prototype.getMonth (0-based) and getDate
GetMonth(t) ==
    LET y == GetFullYear(t)
        d == DayOf(t) - DayFromYear(y)
    IN  CHOOSE m \in 0..11 :
            DaysBeforeMonth(y, m) <= d /\ d < DaysBeforeMonth(y, m) + DaysInMonth(y, m)

GetDate(t) ==
    LET y == GetFullYear(t)
    IN  DayOf(t) - DayFromYear(y) - DaysBeforeMonth(y, GetMonth(t)) + 1

\* (year, month, day), month and day 1-based, is a day of the calendar
IsCalendarDate(year, month, day) ==
    /\ month \in 1..12
    /\ day >= 1
    /\ day <= DaysInMonth(year, month - 1)

\* the findAssignments that has just run, its response and its class
Extracted == last.op = "findAssignments"
ExtractedList == Extracted /\ last.resp.kind = "list"
Items == last.resp.items
ClassKnown == ensureClassExists(last.preClasses, last.cid)
PreAssignments == last.preClasses[ClassIndex(last.preClasses, last.cid)].assignments
PostAssignments == classes[ClassIndex(classes, last.cid)].assignments

\* every class but the one the call named is as it was
OtherClassesUnchanged ==
    /\ Len(classes) = Len(last.preClasses)
    /\ \A i \in DOMAIN classes :
           classes[i].id # last.cid => classes[i] = last.preClasses[i]
    /\ \A i \in DOMAIN classes :
           /\ classes[i].id = last.preClasses[i].id
           /\ classes[i].name = last.preClasses[i].name
           /\ classes[i].overview = last.preClasses[i].overview

\* the validator records an issue for this item
Fails(raw) == ValidateOne(raw, now).issue # NoIssue

Threw == last.result \notin {"ok", "pending"}

\* C1: a response with at least one item that fails validation is rejected
\* whole: the call throws an error that lists at least one issue, and the
\* board holds exactly the assignments it held before, wherever the failing
\* item sits and however many valid items surround it.
C1_AllOrNothing ==
    (ExtractedList /\ \E k \in DOMAIN Items : Fails(Items[k]))
        => /\ last.result = "disallowed"
           /\ Len(last.issues) >= 1
           /\ classes = last.preClasses

\* a rejected response of a known class whose first item is valid and whose
\* last item is not
C1_Witness ==
    /\ ExtractedList
    /\ ClassKnown
    /\ Len(Items) >= 2
    /\ ~Fails(Items[1])
    /\ Fails(Items[Len(Items)])
    /\ last.result = "disallowed"

\* the name and the due date an item asks for
ItemName(raw) == raw.name.s
ItemMonth(raw) == Number(raw.monthDue).v
ItemDay(raw) == Number(raw.dayDue).v

AllValid == \A k \in DOMAIN Items : ~Fails(Items[k])

NamesOf(as) == {as[j].name : j \in DOMAIN as}

\* the k-th item's name is held by the class when the commit loop reaches it
IsDuplicateAt(k) ==
    \/ ItemName(Items[k]) \in NamesOf(PreAssignments)
    \/ \E j \in 1..(k - 1) : ItemName(Items[j]) = ItemName(Items[k])

\* the assignments the class has gained are those of items 1..n, in order
GainedExactly(n) ==
    /\ Len(PostAssignments) = Len(PreAssignments) + n
    /\ SubSeq(PostAssignments, 1, Len(PreAssignments)) = PreAssignments
    /\ \A k \in 1..n :
           LET a == PostAssignments[Len(PreAssignments) + k]
           IN  /\ a.name = ItemName(Items[k])
               /\ a.id = last.preNextId + k - 1

\* C2: when every item is valid and the i-th is the first whose name the
\* class already holds as the commit reaches it, the call throws the
\* duplicate error, the class has gained items 1..i-1 and nothing else, and
\* no other class has changed.
C2_PartialCommit ==
    (ExtractedList /\ ClassKnown /\ AllValid)
        => \A i \in DOMAIN Items :
               (IsDuplicateAt(i) /\ \A j \in 1..(i - 1) : ~IsDuplicateAt(j))
                   => /\ last.result = "duplicate"
                      /\ GainedExactly(i - 1)
                      /\ OtherClassesUnchanged

\* a valid response whose first item was added and whose second item hit a
\* name the class held before the call
C2_Witness ==
    /\ ExtractedList
    /\ ClassKnown
    /\ AllValid
    /\ Len(Items) >= 2
    /\ ~IsDuplicateAt(1)
    /\ ItemName(Items[2]) \in NamesOf(PreAssignments)
    /\ last.result = "duplicate"
    /\ Len(PostAssignments) = Len(PreAssignments) + 1

\* C3: when every item is valid and no item's name is held by the class or
\* by an earlier item, the call returns, the class has gained exactly one
\* assignment per item, in order, with the item's name and a fresh id, due at
\* midnight; an item that names a day of the calendar is due on that day of
\* the current year, month and day counted from 1; nothing else changes.
C3_CommitsExactlyTheResponse ==
    (ExtractedList /\ ClassKnown /\ AllValid
        /\ \A k \in DOMAIN Items : ~IsDuplicateAt(k))
        => /\ last.result = "ok"
           /\ GainedExactly(Len(Items))
           /\ OtherClassesUnchanged
           /\ syllabus = last.preSyllabus
           /\ nextId = last.preNextId + Len(Items)
           /\ \A k \in DOMAIN Items :
                  LET due == PostAssignments[Len(PreAssignments) + k].dueDate
                      year == GetFullYear(now)
                  IN  /\ due % TicksPerDay = 0
                      /\ IsCalendarDate(year, ItemMonth(Items[k]), ItemDay(Items[k]))
                             => /\ GetFullYear(due) = year
                                /\ GetMonth(due) + 1 = ItemMonth(Items[k])
                                /\ GetDate(due) = ItemDay(Items[k])

\* two valid items of different names, each naming a day of the calendar,
\* committed to a class that already held an assignment
C3_Witness ==
    /\ ExtractedList
    /\ ClassKnown
    /\ last.result = "ok"
    /\ Len(Items) >= 2
    /\ \A k \in DOMAIN Items :
           IsCalendarDate(GetFullYear(now), ItemMonth(Items[k]), ItemDay(Items[k]))
    /\ Len(PostAssignments) = Len(PreAssignments) + Len(Items)

\* the responses that never reach the validation loop
Malformed ==
    Extracted
        /\ last.resp.kind \in {"llm_error", "no_json", "bad_json", "no_field", "not_array"}

\* C4: the call adds nothing before the LLM has answered and every item has
\* been validated: the board is unchanged while the LLM call is in flight,
\* and a call that ends in an LLM failure, in a text with no {...}, in a
\* {...} that does not parse, in an `assignments` that is missing or no
\* list, or in a rejected item, throws and leaves every class and the
\* stored syllabus as they were.
C4_CommitAfterValidation ==
    /\ last.op = "findAssignments.call"
           => classes = last.preClasses /\ syllabus = last.preSyllabus
    /\ (Malformed \/ (ExtractedList /\ ~AllValid))
           => /\ Threw
              /\ classes = last.preClasses
              /\ syllabus = last.preSyllabus
              /\ nextId = last.preNextId

\* the LLM failed for a class that holds an assignment, with a syllabus
\* stored
C4_Witness ==
    /\ Malformed
    /\ last.resp.kind = "llm_error"
    /\ ClassKnown
    /\ PreAssignments # <<>>
    /\ syllabus # <<>>
    /\ last.result = "llm_error"

\* the item has a name and integer month and day
WellFormed(raw) ==
    /\ raw.obj
    /\ raw.name.t = "str"
    /\ ~IsBlank(raw.name.s)
    /\ raw.monthDue.t \in {"int", "numstr", "null"}
    /\ raw.dayDue.t \in {"int", "numstr", "null"}

\* C5: an item whose (current year, monthDue, dayDue) is no day of the
\* calendar gets the "invalid date" issue, the response is rejected and the
\* board is unchanged (extraction for a class of the board).
C5_CalendarValidity ==
    (ExtractedList /\ ClassKnown)
        => \A k \in DOMAIN Items :
               (WellFormed(Items[k])
                   /\ ~IsCalendarDate(GetFullYear(now), ItemMonth(Items[k]),
                                      ItemDay(Items[k])))
                   => /\ ValidateOne(Items[k], now).issue = "invalid_date"
                      /\ last.result = "disallowed"
                      /\ classes = last.preClasses

\* the day an item names, when it names a day of the calendar
ItemIsOnDay(raw, day) ==
    /\ WellFormed(raw)
    /\ IsCalendarDate(GetFullYear(now), ItemMonth(raw), ItemDay(raw))
    /\ DayFromYear(GetFullYear(now))
           + DaysBeforeMonth(GetFullYear(now), ItemMonth(raw) - 1)
           + ItemDay(raw) - 1 = day

Today == DayOf(now)

\* C6: the validator, addAssignment and changeAssignment take a date on the
\* current day as not past, at any time of the day, and turn away a date on
\* the day before.
C6_DayGranularity ==
    /\ (ExtractedList /\ ClassKnown)
           => \A k \in DOMAIN Items :
                  /\ ItemIsOnDay(Items[k], Today)
                         => ValidateOne(Items[k], now).issue = NoIssue
                  /\ ItemIsOnDay(Items[k], Today - 1)
                         => ValidateOne(Items[k], now).issue = "past_due"
    /\ (last.op = "addAssignment" /\ ClassKnown /\ ~IsBlank(last.name))
           => /\ DayOf(last.date) = Today => last.result = "ok"
              /\ DayOf(last.date) = Today - 1 => last.result = "past_due"
    /\ last.op = "changeAssignment"
           => /\ DayOf(last.date) = Today => last.result = "ok"
              /\ DayOf(last.date) = Today - 1 => last.result = "past_due"

\* C7: createClass with a name that is empty after trimming throws and
\* registers nothing, so no class of the board has such a name.
C7_ClassNamesNonEmpty ==
    /\ (last.op = "createClass" /\ IsBlank(last.name))
           => Threw /\ classes = last.preClasses
    /\ \A i \in DOMAIN classes : ~IsBlank(classes[i].name)

AllIds(cs) == ClassIds(cs) \cup AllAssignmentIds(cs)

Without(as, id) ==
    LET Keep(a) == a.id # id
    IN  SelectSeq(as, Keep)

\* C9: removeWork of an id some class holds returns and takes exactly that
\* assignment out of that class, and a second removeWork of it throws the
\* not-found error; removeWork of an id no class holds throws the not-found
\* error and changes nothing; removing the assignment addAssignment has just
\* added leaves the board as it was before the addition.
C9_RemoveById ==
    /\ last.op = "removeWork"
           => IF last.work \in AllAssignmentIds(last.preClasses)
              THEN /\ last.result = "ok"
                   /\ Len(classes) = Len(last.preClasses)
                   /\ \A i \in DOMAIN classes :
                          classes[i] =
                              [last.preClasses[i] EXCEPT
                                  !.assignments = Without(@, last.work)]
                   /\ Cardinality(AllAssignmentIds(classes))
                          = Cardinality(AllAssignmentIds(last.preClasses)) - 1
                   /\ removeWork(classes, last.work).result = "assignment_not_found"
              ELSE /\ last.result = "assignment_not_found"
                   /\ classes = last.preClasses
    /\ (last.op = "addAssignment" /\ last.result = "ok")
           => /\ removeWork(classes, last.work).result = "ok"
              /\ removeWork(classes, last.work).classes = last.preClasses

\* the first of two assignments of the second class is removed
C9_Witness ==
    /\ last.op = "removeWork"
    /\ last.result = "ok"
    /\ Len(classes) >= 2
    /\ Len(last.preClasses[2].assignments) = 2
    /\ last.preClasses[2].assignments[1].id = last.work

\* C10: after addAssignment has returned, the collection getAllAssignments
\* gives for the class holds exactly one entry of that name and that date.
C10_AddListRoundTrip ==
    (last.op = "addAssignment" /\ last.result = "ok")
        => LET ret == getAllAssignments(classes, last.cid).ret
           IN  Cardinality({j \in DOMAIN ret :
                   ret[j].name = last.name /\ ret[j].dueDate = last.date}) = 1

\* the names of a collection are pairwise distinct (exact match)
DistinctNames(as) ==
    \A j, k \in DOMAIN as : j # k => as[j].name # as[k].name

\* C11: after every write - addAssignment by hand and each commit of the
\* extraction - no class holds two assignments of the same name.
C11_UniqueNames ==
    \A i \in DOMAIN classes : DistinctNames(classes[i].assignments)

\* t is text without the spaces at its two ends
IsTrimOf(t, text) ==
    \E a, b \in 0..Len(text) :
        /\ a + b <= Len(text)
        /\ t = SubSeq(text, a + 1, Len(text) - b)
        /\ \A i \in 1..a : text[i] = " "
        /\ \A i \in (Len(text) - b + 1)..Len(text) : text[i] = " "
        /\ t # <<>> => t[1] # " " /\ t[Len(t)] # " "

\* C12: addSyllabus with a text that is empty or all spaces throws and
\* leaves the stored text as it was; with any other text it stores the text
\* trimmed, whatever was stored before; no other call changes the stored
\* text; and the prompt findAssignments builds holds the text stored when it
\* is called.
C12_SyllabusLastWriteWins ==
    /\ last.op = "addSyllabus"
           => IF IsBlank(last.name)
              THEN last.result = "empty_syllabus" /\ syllabus = last.preSyllabus
              ELSE /\ last.result = "ok"
                   /\ IsTrimOf(syllabus, last.name)
                   /\ syllabus # <<>>
    /\ last.op \notin {"addSyllabus", "idle"} => syllabus = last.preSyllabus
    /\ last.op = "findAssignments.call"
           => pending[Len(pending)].prompt.syllabus = syllabus

\* a stored text is replaced by another, given with spaces at its ends
C12_Witness ==
    /\ last.op = "addSyllabus"
    /\ last.result = "ok"
    /\ last.preSyllabus # <<>>
    /\ syllabus # last.preSyllabus
    /\ syllabus # last.name

\* C13: getAllAssignments changes nothing; for a class the board does not
\* hold it throws the not-found error addAssignment throws for such a class,
\* and for a class the board holds it returns the class's collection as it
\* now is.
C13_ListAssignments ==
    last.op = "getAllAssignments"
        => /\ classes = last.preClasses
           /\ IF ~ClassKnown
              THEN last.result = "class_not_found"
              ELSE last.result = "ok" /\ last.ret = PostAssignments

\* the first check an item fails, in the order of the checks: object, name,
\* integer fields, a date a Date can hold, a date not before now
FirstFailedCheck(raw) ==
    IF ~raw.obj THEN "not_object"
    ELSE IF raw.name.t # "str" \/ IsBlank(raw.name.s) THEN "missing_name"
    ELSE IF ~WellFormed(raw) THEN "invalid_numeric"
    ELSE IF SpecificDate(now, ItemMonth(raw), ItemDay(raw)).nan THEN "invalid_date"
    ELSE IF SpecificDate(now, ItemMonth(raw), ItemDay(raw)).t < now THEN "past_due"
    ELSE NoIssue

\* one entry per item that fails a check, in the order of the response
ExpectedIssues(items) ==
    LET checks == [k \in DOMAIN items |-> FirstFailedCheck(items[k])]
        Failed(c) == c # NoIssue
    IN  SelectSeq(checks, Failed)

\* C14: every item of the response is examined whatever came before it;
\* the issue list of the rejection holds, in the order of the response, one
\* entry for each item that fails a check, naming the first check it fails.
C14_IssuesAccumulate ==
    ExtractedList
        => /\ ExpectedIssues(Items) # <<>>
                  => /\ last.result = "disallowed"
                     /\ last.issues = ExpectedIssues(Items)
           /\ last.result = "disallowed" => last.issues = ExpectedIssues(Items)

\* a rejection that lists two issues of different kinds
C14_Witness ==
    /\ ExtractedList
    /\ last.result = "disallowed"
    /\ Len(last.issues) = 2
    /\ last.issues[1] # last.issues[2]
    /\ last.issues[2] \in {"invalid_date", "past_due"}

\* C15: findAssignments for a class the board does not hold throws and adds
\* nothing, whatever the LLM answers.
C15_UnknownClass ==
    (Extracted /\ ~ClassKnown) => Threw /\ classes = last.preClasses

====
